---- MODULE Spec2Model ----
(***************************************************************************)
(* Narrowlink gateway: certificate store, challenge registry and the       *)
(* certificate manager's control loop                                      *)
(* (gateway/src/service/certificate/manager.rs).                           *)
(***************************************************************************)
EXTENDS Integers, Sequences, FiniteSets, TLC

\* ------------------------------------------------------------------ bounds
\* certificate serial numbers that exist during a run (initial + issued)
MaxSerial == 2
\* commands external producers submit through the command channel
MaxSends == 2
\* timer ticks the control loop handles
MaxTicks == 1
\* direct calls (issue / load_to_memory / unload_from_memory) made on a clone
MaxCalls == 1
\* commands external producers submit while a direct caller is also at work
MaxDirectSends == 1
\* commands and direct calls together, while a direct caller is at work
MaxDirectOps == 2
\* commands external producers submit while the original instance may be dropped
MaxDropSends == 1
\* commands external producers submit in the fairly scheduled runs
MaxLiveSends == 1
\* commands submitted and ticks fired, together, in the fairly scheduled runs
MaxLiveOps == 2

\* ------------------------------------------------------------------ values
\* Option<T>: None is the empty sequence, Some(x) a one-element sequence
None == <<>>
Some(x) == <<x>>
IsSome(o) == o # <<>>
Unwrap(o) == o[1]

Range(s) == {s[i] : i \in 1..Len(s)}

\* tenancy keys (uid, agent_name)
Keys == {<<"t1", "a1">>, <<"t2", "a1">>}
Domains == {"a.com", "b.com"}
\* the Vec<String> domain lists offered to CertificateStore::insert
DomainLists == {<<>>, <<"a.com">>, <<"b.com">>, <<"a.com", "b.com">>}
\* what domains() reports for the certificates the backend holds at construction
SanOptions == {None, Some(<<"a.com">>)}
\* the certificate primitive: an identity and the SAN list domains() reports
Cert(serial, san) == [serial |-> serial, san |-> san]
\* the tasks that run manager code: the control loop, and a direct caller holding a clone
Tasks == {"loop", "caller"}
\* the two RwLocks of the manager, and both of them free
Locks == {"store", "registry"}
NoLocks == [l \in Locks |-> None]

VARIABLES
    certificates,         \* CertificateStore.certificates : key -> Certificate
    domain_map,           \* CertificateStore.domain_map   : domain -> set of keys
    acme_configurations,  \* challenge registry : domain -> ACMEChallenge
    acme_type,            \* Option<ACMEChallengeType>
    acme_account,         \* whether the manager holds a default account
    storage,              \* the persistence backend : key -> Option<Certificate>
    due,                  \* serials of the certificates whose renew_needed() is true
    nextSerial,           \* serial of the next certificate the ACME directory issues
    queue,                \* the command channel
    task,                 \* each task's position and locals
    sent,                 \* history: commands sent on the channel so far
    consumed,             \* history: commands the loop has received so far
    lastN,                \* history: channel number of the last command received
    extSent,              \* history: commands sent by external producers
    ticks,                \* history: timer ticks handled
    calls,                \* history: direct calls made
    acme_called,          \* history: whether the manager has invoked the ACME adapter
    lastOp,               \* history: the last direct store operation and the store before it
    locks,                \* the writer holding each RwLock (store, registry), if any
    handler,              \* the original instance's Option<JoinHandle<()>>
    unloaded              \* history: tenancies unloaded by the loop, no producer Load since

storeVars == <<certificates, domain_map>>
mgrVars == <<acme_configurations, acme_type, acme_account, storage, due, nextSerial,
             queue, task, sent, consumed, lastN, extSent, ticks, calls, acme_called,
             locks, handler, unloaded>>
vars == <<certificates, domain_map, acme_configurations, acme_type, acme_account, storage,
          due, nextSerial, queue, task, sent, consumed, lastN, extSent, ticks, calls,
          acme_called, lastOp, locks, handler, unloaded>>

\* ------------------------------------------------------- CertificateStore
EmptyStore == [certificates |-> <<>>, domain_map |-> <<>>]
TheStore == [certificates |-> certificates, domain_map |-> domain_map]

\* HashMap::insert
MapPut(m, k, v) == [x \in (DOMAIN m) \cup {k} |-> IF x = k THEN v ELSE m[x]]
\* HashMap::remove
MapDel(m, k) == [x \in (DOMAIN m) \ {k} |-> m[x]]

\* the body of insert's loop for one domain
IndexOne(dm, domain, k) ==
    IF domain \in DOMAIN dm
    THEN [dm EXCEPT ![domain] = @ \cup {k}]
    ELSE MapPut(dm, domain, {k})

RECURSIVE IndexAll(_, _, _)
IndexAll(dm, domains, k) ==
    IF domains = <<>> THEN dm
    ELSE IndexAll(IndexOne(dm, Head(domains), k), Tail(domains), k)

\* faulty variant: a remove that forgets to prune the emptied sets
StoreRemove_NoPrune(st, k) ==
    [certificates |-> MapDel(st.certificates, k),
     domain_map |-> [d \in DOMAIN st.domain_map |-> st.domain_map[d] \ {k}]]

\* faulty variant: a remove that deletes the certificate and leaves the index alone
StoreRemove_KeepIndex(st, k) ==
    [certificates |-> MapDel(st.certificates, k), domain_map |-> st.domain_map]

StoreInsert(st, k, domains, cert) ==
    [certificates |-> MapPut(st.certificates, k, cert),
     domain_map |-> IndexAll(st.domain_map, domains, k)]

StoreRemove(st, k) ==
    LET stripped == [d \in DOMAIN st.domain_map |-> st.domain_map[d] \ {k}]
        kept == {d \in DOMAIN stripped : stripped[d] # {}}
    IN [certificates |-> MapDel(st.certificates, k),
        domain_map |-> [d \in kept |-> stripped[d]]]

\* ------------------------------------------------- store-level operations
NoOp == [op |-> "none", key |-> <<"t1", "a1">>, domains |-> <<>>, pre |-> EmptyStore]
IdleTask ==
    [pc |-> "idle", key |-> <<"t1", "a1">>, domains |-> <<>>, account |-> FALSE,
     frame |-> "none", got |-> None, pending |-> <<>>, registered |-> <<>>,
     success |-> FALSE, res |-> "none", n |-> 0, src |-> "none"]
\* the control loop waiting in select!
Selecting == [IdleTask EXCEPT !.pc = "select"]

InitStore ==
    /\ certificates = <<>>
    /\ domain_map = <<>>
    /\ lastOp = NoOp
    /\ acme_configurations = <<>>
    /\ acme_type = None
    /\ acme_account = FALSE
    /\ storage = [k \in Keys |-> None]
    /\ due = {}
    /\ nextSerial = 1
    /\ queue = <<>>
    /\ task = [t \in Tasks |-> IdleTask]
    /\ sent = 0 /\ consumed = 0 /\ lastN = 0 /\ extSent = 0 /\ ticks = 0 /\ calls = 0
    /\ acme_called = FALSE
    /\ locks = NoLocks
    /\ handler = None
    /\ unloaded = {}

Insert(k, domains, cert) ==
    LET st == StoreInsert(TheStore, k, domains, cert) IN
    /\ certificates' = st.certificates
    /\ domain_map' = st.domain_map
    /\ lastOp' = [op |-> "insert", key |-> k, domains |-> domains, pre |-> TheStore]
    /\ UNCHANGED mgrVars

Remove(k) ==
    LET st == StoreRemove(TheStore, k) IN
    /\ certificates' = st.certificates
    /\ domain_map' = st.domain_map
    /\ lastOp' = IF lastOp.op = "insert" /\ lastOp.key = k
                 THEN [lastOp EXCEPT !.op = "insert_remove"]
                 ELSE [op |-> "remove", key |-> k, domains |-> <<>>, pre |-> TheStore]
    /\ UNCHANGED mgrVars

\* The store never reads the certificate it is given; the certificates offered
\* here are those whose SAN list is the list passed to insert, so that "the
\* domains of the certificate stored under k" and the inserted list agree.
NextStore ==
    \/ \E k \in Keys, domains \in DomainLists, serial \in 1..MaxSerial :
          Insert(k, domains, Cert(serial, Some(domains)))
    \/ \E k \in Keys : Remove(k)

SpecStore == InitStore /\ [][NextStore]_vars

\* ------------------------------------------------------------- collaborators
\* Certificate::renew_needed(): time-based, true once the serial is due
RenewNeededCert(cert) == cert.serial \in due

\* the certificates the persistence backend can hold at construction
InitCerts == {Cert(1, san) : san \in SanOptions}
\* the domain lists the Load commands and the direct calls carry
LoadLists == {<<"a.com", "b.com">>}
\* the tenancies the direct caller works on
CallerKeys == {<<"t1", "a1">>}

\* faulty variant: a snapshot that stops at the first entry it finds
RenewNeeded_FirstOnly(certs) ==
    LET keys == {x \in DOMAIN certs : RenewNeededCert(certs[x]) /\ IsSome(certs[x].san)} IN
    IF keys = {} THEN {}
    ELSE LET k == CHOOSE x \in keys : TRUE IN
         {[key |-> k, domains |-> Unwrap(certs[k].san)]}

\* CertificateStore::renew_needed: the entries a snapshot holds
RenewNeeded(certs) ==
    {[key |-> k, domains |-> Unwrap(certs[k].san)] :
        k \in {x \in DOMAIN certs : RenewNeededCert(certs[x]) /\ IsSome(certs[x].san)}}

\* the orders in which a Vec built from a HashMap iteration can list a set
Orderings(S) ==
    {o \in [1..Cardinality(S) -> S] : \A i, j \in 1..Cardinality(S) : o[i] = o[j] => i = j}

\* CertificateManager::is_acme_enabled
is_acme_enabled == IsSome(acme_type)

IssuePcs == {"issue_account", "issue_new_order", "issue_put_short", "issue_register",
             "issue_check", "issue_put", "issue_cleanup"}
LoadPcs == {"load_get", "load_insert"}

\* ------------------------------------------------------------ construction
\* CertificateManager::new: empty store and registry, an empty channel, the loop
\* spawned and waiting in select!; ACME enabled (with a default account, created
\* through the adapter when storage has none) or disabled.
Init ==
    /\ certificates = <<>>
    /\ domain_map = <<>>
    /\ lastOp = NoOp
    /\ acme_configurations = <<>>
    /\ acme_type \in {None, Some("Http01"), Some("TlsAlpn01")}
    /\ acme_account = IsSome(acme_type)
    /\ acme_called = FALSE
    /\ storage \in [Keys -> {None} \cup {Some(c) : c \in InitCerts}]
    /\ due = {}
    /\ nextSerial = 2
    /\ queue = <<>>
    /\ task = [t \in Tasks |-> IF t = "loop" THEN Selecting ELSE IdleTask]
    /\ sent = 0 /\ consumed = 0 /\ lastN = 0 /\ extSent = 0 /\ ticks = 0 /\ calls = 0
    /\ locks = NoLocks
    /\ handler = Some("loop")
    /\ unloaded = {}

\* ------------------------------------------------------------- environment
\* a producer holding a sender submits a command
Submit(cmd, k, domains) ==
    /\ queue' = Append(queue, [cmd |-> cmd, key |-> k, domains |-> domains,
                               n |-> sent + 1, src |-> "producer"])
    /\ sent' = sent + 1
    /\ extSent' = extSent + 1
    /\ unloaded' = IF cmd = "Load" THEN unloaded \ {k} ELSE unloaded
    /\ UNCHANGED <<storeVars, acme_configurations, acme_type, acme_account, storage, due,
                   nextSerial, task, consumed, lastN, ticks, calls, acme_called, lastOp,
                   locks, handler>>

\* time passes: an existing certificate enters its renewal window
ClockAdvance(serial) ==
    /\ serial < nextSerial
    /\ serial \notin due
    /\ due' = due \cup {serial}
    /\ UNCHANGED <<storeVars, acme_configurations, acme_type, acme_account, storage,
                   nextSerial, queue, task, sent, consumed, lastN, extSent, ticks, calls,
                   acme_called, lastOp, locks, handler, unloaded>>

\* ---------------------------------------------------------- returning
\* where a task goes when the function it called returns result r
\* faulty variant: a Load arm that falls back to issue only when storage had nothing
AfterLoad_OnlyOnMissing(t, r) ==
    IF t = "loop"
    THEN IF task[t].frame = "first" /\ r = "StorageError" /\ is_acme_enabled
         THEN [task[t] EXCEPT !.pc = "issue_account", !.account = FALSE, !.got = None,
                              !.res = r]
         ELSE [Selecting EXCEPT !.res = r]
    ELSE [IdleTask EXCEPT !.res = r]

\* faulty variant: a Load arm that lets the error of its last load_to_memory
\* escape, which ends the spawned task
AfterLoad_ErrorEndsLoop(t, r) ==
    IF t = "loop"
    THEN IF task[t].frame = "first" /\ r # "Ok" /\ is_acme_enabled
         THEN [task[t] EXCEPT !.pc = "issue_account", !.account = FALSE, !.got = None,
                              !.res = r]
         ELSE IF r # "Ok" THEN [IdleTask EXCEPT !.pc = "ended", !.res = r]
         ELSE [Selecting EXCEPT !.res = r]
    ELSE [IdleTask EXCEPT !.res = r]

AfterLoad(t, r) ==
    IF t = "loop"
    THEN IF task[t].frame = "first" /\ r # "Ok" /\ is_acme_enabled
         THEN [task[t] EXCEPT !.pc = "issue_account", !.account = FALSE, !.got = None,
                              !.res = r]
         ELSE [Selecting EXCEPT !.res = r]
    ELSE [IdleTask EXCEPT !.res = r]

\* faulty variant: a Load arm that loads again only when issue succeeded
AfterIssue_ReloadOnSuccess(t, r) ==
    IF t = "loop"
    THEN IF r = "Ok"
         THEN [task[t] EXCEPT !.pc = "load_get", !.frame = "second", !.pending = <<>>,
                              !.success = FALSE, !.res = r]
         ELSE [Selecting EXCEPT !.res = r]
    ELSE [IdleTask EXCEPT !.registered = task[t].registered, !.res = r]

AfterIssue(t, r) ==
    IF t = "loop"
    THEN [task[t] EXCEPT !.pc = "load_get", !.frame = "second", !.pending = <<>>,
                         !.success = FALSE, !.res = r]
    ELSE [IdleTask EXCEPT !.registered = task[t].registered, !.res = r]

AfterUnload(t) ==
    IF t = "loop" THEN [Selecting EXCEPT !.res = "Ok"]
    ELSE [IdleTask EXCEPT !.res = "Ok"]

\* ------------------------------------------------------------ control loop
\* select!: receiver.recv() yields the next command
\* faulty variant: a receive that takes the newest command instead of the oldest
LoopRecv_Newest ==
    /\ task["loop"].pc = "select"
    /\ queue # <<>>
    /\ LET msg == queue[Len(queue)] IN
        /\ queue' = SubSeq(queue, 1, Len(queue) - 1)
        /\ consumed' = consumed + 1
        /\ lastN' = msg.n
        /\ task' = [task EXCEPT !["loop"] =
                      [IdleTask EXCEPT !.pc = IF msg.cmd = "Load" THEN "load_get" ELSE "unload",
                                       !.key = msg.key, !.domains = msg.domains,
                                       !.frame = "first", !.n = msg.n, !.src = msg.src,
                                       !.res = "none"]]
    /\ UNCHANGED <<storeVars, acme_configurations, acme_type, acme_account, storage, due,
                   nextSerial, sent, extSent, ticks, calls, acme_called, lastOp,
                   locks, handler, unloaded>>

LoopRecv ==
    /\ task["loop"].pc = "select"
    /\ queue # <<>>
    /\ LET msg == Head(queue) IN
        /\ queue' = Tail(queue)
        /\ consumed' = consumed + 1
        /\ lastN' = msg.n
        /\ task' = [task EXCEPT !["loop"] =
                      [IdleTask EXCEPT !.pc = IF msg.cmd = "Load" THEN "load_get" ELSE "unload",
                                       !.key = msg.key, !.domains = msg.domains,
                                       !.frame = "first", !.n = msg.n, !.src = msg.src,
                                       !.res = "none"]]
    /\ UNCHANGED <<storeVars, acme_configurations, acme_type, acme_account, storage, due,
                   nextSerial, sent, extSent, ticks, calls, acme_called, lastOp,
                   locks, handler, unloaded>>

\* select!: interval.tick() fires; one Load per entry of the renew_needed snapshot,
\* which is taken under the store's read lock (no writer holds it)
LoopTick ==
    /\ task["loop"].pc = "select"
    /\ locks["store"] = None
    /\ \E order \in Orderings(RenewNeeded(certificates)) :
        /\ queue' = queue \o [i \in 1..Len(order) |->
                                [cmd |-> "Load", key |-> order[i].key,
                                 domains |-> order[i].domains, n |-> sent + i,
                                 src |-> "tick"]]
        /\ sent' = sent + Len(order)
    /\ ticks' = ticks + 1
    /\ UNCHANGED <<storeVars, acme_configurations, acme_type, acme_account, storage, due,
                   nextSerial, task, consumed, lastN, extSent, calls, acme_called, lastOp,
                   locks, handler, unloaded>>

\* --------------------------------------------------------- direct callers
CallIssue(k, domains, account) ==
    /\ task["caller"].pc = "idle"
    /\ calls' = calls + 1
    /\ task' = [task EXCEPT !["caller"] =
                  [IdleTask EXCEPT !.pc = "issue_account", !.key = k, !.domains = domains,
                                   !.account = account]]
    /\ UNCHANGED <<storeVars, acme_configurations, acme_type, acme_account, storage, due,
                   nextSerial, queue, sent, consumed, lastN, extSent, ticks, acme_called, lastOp,
                   locks, handler, unloaded>>

CallLoad(k, domains) ==
    /\ task["caller"].pc = "idle"
    /\ calls' = calls + 1
    /\ task' = [task EXCEPT !["caller"] =
                  [IdleTask EXCEPT !.pc = "load_get", !.key = k, !.domains = domains]]
    /\ UNCHANGED <<storeVars, acme_configurations, acme_type, acme_account, storage, due,
                   nextSerial, queue, sent, consumed, lastN, extSent, ticks, acme_called, lastOp,
                   locks, handler, unloaded>>

CallUnload(k) ==
    /\ task["caller"].pc = "idle"
    /\ calls' = calls + 1
    /\ task' = [task EXCEPT !["caller"] = [IdleTask EXCEPT !.pc = "unload", !.key = k]]
    /\ UNCHANGED <<storeVars, acme_configurations, acme_type, acme_account, storage, due,
                   nextSerial, queue, sent, consumed, lastN, extSent, ticks, acme_called, lastOp,
                   locks, handler, unloaded>>

\* ------------------------------------------------------------------ locks
\* the RwLock a task is about to take with write().await, if any
LockWanted(t) ==
    IF task[t].pc = "unload" THEN Some("store")
    ELSE IF task[t].pc = "load_insert" THEN Some("store")
    ELSE IF task[t].pc \in {"issue_register", "issue_cleanup"} THEN Some("registry")
    ELSE None

\* the locks whose write guard task t holds
Holding(t) == {l \in Locks : locks[l] = Some(t)}

\* write().await returns the guard once no task holds the lock
Acquire(t) ==
    /\ IsSome(LockWanted(t))
    /\ Holding(t) = {}
    /\ locks[Unwrap(LockWanted(t))] = None
    /\ locks' = [locks EXCEPT ![Unwrap(LockWanted(t))] = Some(t)]
    /\ UNCHANGED <<storeVars, acme_configurations, acme_type, acme_account, storage, due,
                   nextSerial, queue, task, sent, consumed, lastN, extSent, ticks, calls,
                   acme_called, lastOp, handler, unloaded>>

\* a Load for tenancy k that a producer sent is waiting in the channel
LoadFollows(k) ==
    \E i \in 1..Len(queue) :
        queue[i].cmd = "Load" /\ queue[i].key = k /\ queue[i].src = "producer"

\* ---------------------------------------------------------- load / unload
\* faulty variant: a load that never looks at renew_needed
LoadGet_SkipRenewCheck(t) ==
    /\ task[t].pc = "load_get"
    /\ \/ /\ IsSome(storage[task[t].key])
          /\ task' = [task EXCEPT ![t] = [@ EXCEPT !.pc = "load_insert",
                                                   !.got = storage[task[t].key]]]
       \/ task' = [task EXCEPT ![t] = AfterLoad(t, "StorageError")]
    /\ UNCHANGED <<storeVars, acme_configurations, acme_type, acme_account, storage, due,
                   nextSerial, queue, sent, consumed, lastN, extSent, ticks, calls,
                   acme_called, lastOp, locks, handler, unloaded>>

\* load_to_memory: storage.get(uid, agent_name).await?, then the renew_needed
\* check of the certificate it returned
LoadGet(t) ==
    /\ task[t].pc = "load_get"
    /\ \/ \* the backend returns the certificate it holds
          /\ IsSome(storage[task[t].key])
          /\ task' = [task EXCEPT ![t] =
                        IF RenewNeededCert(Unwrap(storage[task[t].key]))
                        THEN AfterLoad(t, "CertificateRenewalRequired")
                        ELSE [@ EXCEPT !.pc = "load_insert",
                                       !.got = storage[task[t].key]]]
       \/ \* the backend fails (no certificate, or an I/O error)
          task' = [task EXCEPT ![t] = AfterLoad(t, "StorageError")]
    /\ UNCHANGED <<storeVars, acme_configurations, acme_type, acme_account, storage, due,
                   nextSerial, queue, sent, consumed, lastN, extSent, ticks, calls,
                   acme_called, lastOp, locks, handler, unloaded>>

\* load_to_memory: holding the write lock, the insert, after which the guard is
\* dropped
LoadInsert(t) ==
    /\ task[t].pc = "load_insert"
    /\ locks["store"] = Some(t)
    /\ LET st == StoreInsert(TheStore, task[t].key, task[t].domains, Unwrap(task[t].got)) IN
        /\ certificates' = st.certificates
        /\ domain_map' = st.domain_map
    /\ task' = [task EXCEPT ![t] = AfterLoad(t, "Ok")]
    /\ locks' = [locks EXCEPT !["store"] = None]
    /\ UNCHANGED <<acme_configurations, acme_type, acme_account, storage, due, nextSerial,
                   queue, sent, consumed, lastN, extSent, ticks, calls, acme_called, lastOp,
                   handler, unloaded>>

\* unload_from_memory: holding the write lock, the remove, after which the guard
\* is dropped
Unload(t) ==
    /\ task[t].pc = "unload"
    /\ locks["store"] = Some(t)
    /\ LET st == StoreRemove(TheStore, task[t].key) IN
        /\ certificates' = st.certificates
        /\ domain_map' = st.domain_map
    /\ task' = [task EXCEPT ![t] = AfterUnload(t)]
    /\ locks' = [locks EXCEPT !["store"] = None]
    /\ unloaded' = IF t = "loop" /\ ~LoadFollows(task[t].key)
                    THEN unloaded \cup {task[t].key} ELSE unloaded
    /\ UNCHANGED <<acme_configurations, acme_type, acme_account, storage, due, nextSerial,
                   queue, sent, consumed, lastN, extSent, ticks, calls, acme_called, lastOp,
                   handler>>

\* ------------------------------------------------------------------ issue
\* faulty variant: an account selection that forgets to require a configured challenge type
IssueAccount_IgnoreType(t) ==
    /\ task[t].pc = "issue_account"
    /\ \E tenancyAccount \in BOOLEAN, restored \in BOOLEAN :
        IF ~(task[t].account \/ tenancyAccount \/ acme_account)
        THEN /\ task' = [task EXCEPT ![t] = AfterIssue(t, "ACMEIsDisabled")]
             /\ UNCHANGED acme_called
        ELSE /\ acme_called' = TRUE
             /\ task' = [task EXCEPT ![t] =
                           IF restored THEN [@ EXCEPT !.pc = "issue_new_order"]
                           ELSE AfterIssue(t, "ACMEError")]
    /\ UNCHANGED <<storeVars, acme_configurations, acme_type, acme_account, storage, due,
                   nextSerial, queue, sent, consumed, lastN, extSent, ticks, calls, lastOp,
                   locks, handler, unloaded>>

\* issue: the effective account (argument, then the tenancy's account from storage,
\* then the manager's default) and the challenge type, else ACMEIsDisabled; then
\* Acme::from_account(..)?
IssueAccount(t) ==
    /\ task[t].pc = "issue_account"
    /\ \E tenancyAccount \in BOOLEAN, restored \in BOOLEAN :
        IF ~((task[t].account \/ tenancyAccount \/ acme_account) /\ IsSome(acme_type))
        THEN /\ task' = [task EXCEPT ![t] = AfterIssue(t, "ACMEIsDisabled")]
             /\ UNCHANGED acme_called
        ELSE /\ acme_called' = TRUE
             /\ task' = [task EXCEPT ![t] =
                           IF restored THEN [@ EXCEPT !.pc = "issue_new_order"]
                           ELSE AfterIssue(t, "ACMEError")]
    /\ UNCHANGED <<storeVars, acme_configurations, acme_type, acme_account, storage, due,
                   nextSerial, queue, sent, consumed, lastN, extSent, ticks, calls, lastOp,
                   locks, handler, unloaded>>

\* issue: acme.new_order(..).await?, then the challenges of the configured type
IssueNewOrder(t) ==
    /\ task[t].pc = "issue_new_order"
    /\ \/ \* the order cannot be opened
          /\ acme_called' = TRUE
          /\ task' = [task EXCEPT ![t] = AfterIssue(t, "ACMEError")]
       \/ \* the directory short-circuits with a certificate
          /\ acme_called' = TRUE
          /\ task' = [task EXCEPT ![t] = [@ EXCEPT !.pc = "issue_put_short"]]
       \/ \* challenges are needed and cannot be retrieved
          /\ acme_called' = TRUE
          /\ task' = [task EXCEPT ![t] = AfterIssue(t, "ACMEError")]
       \/ \* one challenge per domain of the order
          /\ acme_called' = TRUE
          /\ task' = [task EXCEPT ![t] =
                        [@ EXCEPT !.pc = IF task[t].domains = <<>> THEN "issue_check"
                                         ELSE "issue_register",
                                  !.pending = task[t].domains, !.registered = <<>>]]
    /\ UNCHANGED <<storeVars, acme_configurations, acme_type, acme_account, storage, due,
                   nextSerial, queue, sent, consumed, lastN, extSent, ticks, calls, lastOp,
                   locks, handler, unloaded>>

\* issue: self.storage.put(uid, agent_name, None, pem).await? on the short circuit
IssuePutShort(t) ==
    /\ task[t].pc = "issue_put_short"
    /\ \/ /\ nextSerial <= MaxSerial
          /\ storage' = [storage EXCEPT ![task[t].key] =
                            Some(Cert(nextSerial, Some(task[t].domains)))]
          /\ nextSerial' = nextSerial + 1
          /\ task' = [task EXCEPT ![t] = AfterIssue(t, "Ok")]
       \/ /\ task' = [task EXCEPT ![t] = AfterIssue(t, "StorageError")]
          /\ UNCHANGED <<storage, nextSerial>>
    /\ UNCHANGED <<storeVars, acme_configurations, acme_type, acme_account, due, queue,
                   sent, consumed, lastN, extSent, ticks, calls, acme_called, lastOp,
                   locks, handler, unloaded>>

\* faulty variant: a registering loop that keeps its write guard alive after the
\* insert, so that the guard outlives the loop
IssueRegister_KeepGuard(t) ==
    /\ task[t].pc = "issue_register"
    /\ locks["registry"] = Some(t)
    /\ LET domain == Head(task[t].pending) IN
        /\ acme_configurations' =
              MapPut(acme_configurations, domain,
                     [variant |-> Unwrap(acme_type), owner |-> t])
        /\ task' = [task EXCEPT ![t] =
                      [@ EXCEPT !.pending = Tail(@),
                                !.registered = Append(@, domain),
                                !.pc = IF Tail(task[t].pending) = <<>> THEN "issue_check"
                                       ELSE "issue_register"]]
    /\ UNCHANGED <<storeVars, acme_type, acme_account, storage, due, nextSerial, queue,
                   sent, consumed, lastN, extSent, ticks, calls, acme_called, lastOp,
                   locks, handler, unloaded>>

\* issue: one pass of the registering loop: holding the write lock, the insert,
\* after which the guard is dropped
IssueRegister(t) ==
    /\ task[t].pc = "issue_register"
    /\ locks["registry"] = Some(t)
    /\ locks' = [locks EXCEPT !["registry"] = None]
    /\ LET domain == Head(task[t].pending) IN
        /\ acme_configurations' =
              MapPut(acme_configurations, domain,
                     [variant |-> Unwrap(acme_type), owner |-> t])
        /\ task' = [task EXCEPT ![t] =
                      [@ EXCEPT !.pending = Tail(@),
                                !.registered = Append(@, domain),
                                !.pc = IF Tail(task[t].pending) = <<>> THEN "issue_check"
                                       ELSE "issue_register"]]
    /\ UNCHANGED <<storeVars, acme_type, acme_account, storage, due, nextSerial, queue,
                   sent, consumed, lastN, extSent, ticks, calls, acme_called, lastOp,
                   handler, unloaded>>

\* faulty variant: a failed validation that returns at once, as a `?` would
IssueCheck_EarlyReturn(t) ==
    /\ task[t].pc = "issue_check"
    /\ acme_called' = TRUE
    /\ \/ task' = [task EXCEPT ![t] = [@ EXCEPT !.pc = "issue_put"]]
       \/ task' = [task EXCEPT ![t] = AfterIssue(t, "ACMEFailed")]
    /\ UNCHANGED <<storeVars, acme_configurations, acme_type, acme_account, storage, due,
                   nextSerial, queue, sent, consumed, lastN, extSent, ticks, calls, lastOp,
                   locks, handler, unloaded>>

\* issue: acme.check_challenge(challenges, 5, 10 * 1000, ..).await
IssueCheck(t) ==
    /\ task[t].pc = "issue_check"
    /\ acme_called' = TRUE
    /\ \/ task' = [task EXCEPT ![t] = [@ EXCEPT !.pc = "issue_put"]]
       \/ task' = [task EXCEPT ![t] = [@ EXCEPT !.pc = "issue_cleanup", !.success = FALSE]]
    /\ UNCHANGED <<storeVars, acme_configurations, acme_type, acme_account, storage, due,
                   nextSerial, queue, sent, consumed, lastN, extSent, ticks, calls, lastOp,
                   locks, handler, unloaded>>

\* issue: self.storage.put(&uid, &agent_name, account, pem).await
IssuePut(t) ==
    /\ task[t].pc = "issue_put"
    /\ \/ /\ nextSerial <= MaxSerial
          /\ storage' = [storage EXCEPT ![task[t].key] =
                            Some(Cert(nextSerial, Some(task[t].domains)))]
          /\ nextSerial' = nextSerial + 1
          /\ task' = [task EXCEPT ![t] = [@ EXCEPT !.pc = "issue_cleanup", !.success = TRUE]]
       \/ /\ task' = [task EXCEPT ![t] = [@ EXCEPT !.pc = "issue_cleanup", !.success = FALSE]]
          /\ UNCHANGED <<storage, nextSerial>>
    /\ UNCHANGED <<storeVars, acme_configurations, acme_type, acme_account, due, queue,
                   sent, consumed, lastN, extSent, ticks, calls, acme_called, lastOp,
                   locks, handler, unloaded>>

\* issue: holding the write lock, every registered challenge domain is removed,
\* after which the guard is dropped
IssueCleanup(t) ==
    /\ task[t].pc = "issue_cleanup"
    /\ locks["registry"] = Some(t)
    /\ locks' = [locks EXCEPT !["registry"] = None]
    /\ acme_configurations' =
          [d \in (DOMAIN acme_configurations) \ Range(task[t].registered) |->
              acme_configurations[d]]
    /\ task' = [task EXCEPT ![t] =
                  AfterIssue(t, IF task[t].success THEN "Ok" ELSE "ACMEFailed")]
    /\ UNCHANGED <<storeVars, acme_type, acme_account, storage, due, nextSerial, queue,
                   sent, consumed, lastN, extSent, ticks, calls, acme_called, lastOp,
                   handler, unloaded>>

\* ------------------------------------------------------------ the manager
\* a step of load_to_memory, unload_from_memory or issue, by the loop or a caller
TaskStep ==
    \/ \E t \in Tasks : Acquire(t)
    \/ \E t \in Tasks : LoadGet(t)
    \/ \E t \in Tasks : LoadInsert(t)
    \/ \E t \in Tasks : Unload(t)
    \/ \E t \in Tasks : IssueAccount(t)
    \/ \E t \in Tasks : IssueNewOrder(t)
    \/ \E t \in Tasks : IssuePutShort(t)
    \/ \E t \in Tasks : IssueRegister(t)
    \/ \E t \in Tasks : IssueCheck(t)
    \/ \E t \in Tasks : IssuePut(t)
    \/ \E t \in Tasks : IssueCleanup(t)

\* the manager driven through its command channel and its timer only
Next ==
    \/ extSent < MaxSends /\ \E k \in Keys, domains \in LoadLists : Submit("Load", k, domains)
    \/ extSent < MaxSends /\ \E k \in Keys : Submit("Unload", k, <<>>)
    \/ \E serial \in 1..MaxSerial : ClockAdvance(serial)
    \/ LoopRecv
    \/ ticks < MaxTicks /\ LoopTick
    \/ TaskStep

Spec == Init /\ [][Next]_vars

\* the manager with a task that calls issue, load_to_memory and
\* unload_from_memory directly on a clone, concurrently with the loop as it
\* serves the commands of the channel
MaySend == extSent < MaxDirectSends /\ extSent + calls < MaxDirectOps
MayCall == calls < MaxCalls /\ extSent + calls < MaxDirectOps
NextDirect ==
    \/ MaySend /\ \E k \in Keys, domains \in LoadLists : Submit("Load", k, domains)
    \/ MaySend /\ \E k \in Keys : Submit("Unload", k, <<>>)
    \/ \E serial \in 1..MaxSerial : ClockAdvance(serial)
    \/ LoopRecv
    \/ MayCall /\ \E k \in CallerKeys, domains \in LoadLists, account \in BOOLEAN :
          CallIssue(k, domains, account)
    \/ MayCall /\ \E k \in CallerKeys, domains \in LoadLists : CallLoad(k, domains)
    \/ MayCall /\ \E k \in CallerKeys : CallUnload(k)
    \/ TaskStep

SpecDirect == Init /\ [][NextDirect]_vars

\* ------------------------------------------------- dropping the original
\* faulty variant: a drop that aborts the spawned task, as an abort-on-drop
\* handle would
DropOriginal_Aborts ==
    /\ IsSome(handler)
    /\ handler' = None
    /\ task' = [task EXCEPT !["loop"] = [@ EXCEPT !.pc = "aborted"]]
    /\ UNCHANGED <<storeVars, acme_configurations, acme_type, acme_account, storage, due,
                   nextSerial, queue, sent, consumed, lastN, extSent, ticks, calls,
                   acme_called, lastOp, locks, unloaded>>

\* the instance returned by new is dropped, and its Option<JoinHandle<()>> with
\* it: the spawned task is detached and runs on (no Drop impl aborts it), and
\* the task keeps its own sender, receiver and clone of the manager
DropOriginal ==
    /\ IsSome(handler)
    /\ handler' = None
    /\ UNCHANGED <<storeVars, acme_configurations, acme_type, acme_account, storage, due,
                   nextSerial, queue, task, sent, consumed, lastN, extSent, ticks, calls,
                   acme_called, lastOp, locks, unloaded>>

\* the manager driven through its channel and its timer, where the original
\* instance can be dropped at any time while senders survive
NextDrop ==
    \/ extSent < MaxDropSends /\ \E k \in Keys, domains \in LoadLists :
          Submit("Load", k, domains)
    \/ extSent < MaxDropSends /\ \E k \in Keys : Submit("Unload", k, <<>>)
    \/ \E serial \in 1..MaxSerial : ClockAdvance(serial)
    \/ LoopRecv
    \/ ticks < MaxTicks /\ LoopTick
    \/ TaskStep
    \/ DropOriginal

SpecDrop == Init /\ [][NextDrop]_vars

\* the manager driven through its channel and its timer for a bounded number
\* of commands and ticks
LiveSend == extSent < MaxLiveSends /\ extSent + ticks < MaxLiveOps
LiveTick == ticks < MaxTicks /\ extSent + ticks < MaxLiveOps
NextLive ==
    \/ LiveSend /\ \E k \in Keys, domains \in LoadLists : Submit("Load", k, domains)
    \/ LiveSend /\ \E k \in Keys : Submit("Unload", k, <<>>)
    \/ \E serial \in 1..MaxSerial : ClockAdvance(serial)
    \/ LoopRecv
    \/ LiveTick /\ LoopTick
    \/ TaskStep

\* on a runtime that schedules every ready task: every storage and adapter
\* call returns, a lock that is free is granted, select! takes a ready arm and
\* the timer fires
SpecLive ==
    /\ Init /\ [][NextLive]_vars
    /\ WF_vars(LoopRecv)
    /\ WF_vars(LiveTick /\ LoopTick)
    /\ WF_vars(TaskStep)

\* --------------------------------------------------- manager properties
\* task t takes a step of the function it is in
Steps(t) == task'[t] # task[t]

\* the certificate the backend holds for the tenancy task t works on is due
StoredCertDue(t) ==
    IsSome(storage[task[t].key]) /\ RenewNeededCert(Unwrap(storage[task[t].key]))

\* C3: load atomicity: a step of load_to_memory that does not return Ok leaves
\* certificates and domain_map as they were; a certificate whose renew_needed()
\* is true never reaches the insert, and the call that fetched it returns
\* CertificateRenewalRequired.
C3_LoadAtomicity ==
    [][\A t \in Tasks :
        (task[t].pc \in LoadPcs /\ Steps(t)) =>
            /\ (task'[t].pc = "load_insert" \/ task'[t].res # "Ok") => UNCHANGED storeVars
            /\ (task[t].pc = "load_get" /\ StoredCertDue(t)) =>
                  /\ task'[t].pc # "load_insert"
                  /\ task'[t].res \in {"CertificateRenewalRequired", "StorageError"}]_vars

\* a load has returned CertificateRenewalRequired while the store held certificates
C3_Witness ==
    \E t \in Tasks :
        /\ task[t].res = "CertificateRenewalRequired"
        /\ task[t].pc \in {"select", "idle", "issue_account"}
        /\ certificates # <<>>

\* C4: challenge cleanup: a task that is not between the registration and the
\* cleanup of an issue call owns no entry of the challenge registry.
C4_ChallengeCleanup ==
    \A t \in Tasks :
        task[t].pc \notin {"issue_register", "issue_check", "issue_put", "issue_cleanup"} =>
            \A d \in DOMAIN acme_configurations : acme_configurations[d].owner # t

\* an issue call that registered two challenges has returned ACMEFailed
C4_Witness ==
    \E t \in Tasks :
        /\ task[t].pc \notin IssuePcs
        /\ task[t].res = "ACMEFailed"
        /\ Len(task[t].registered) = 2

\* C5: ACME-disabled safety: without a challenge type the adapter is never
\* invoked, the loop never enters issue, a direct issue call stops at the account
\* selection, and a Load whose load_to_memory fails at the storage get (or at the
\* renew_needed check) returns the loop to select! with the store unchanged.
C5_AcmeDisabledSafety ==
    /\ [](acme_type = None =>
            /\ ~acme_called
            /\ task["loop"].pc \notin IssuePcs
            /\ \A t \in Tasks : task[t].pc \notin (IssuePcs \ {"issue_account"}))
    /\ [][(acme_type = None /\ task["loop"].pc = "load_get" /\ Steps("loop")
              /\ task'["loop"].pc # "load_insert") =>
            /\ task'["loop"].pc = "select"
            /\ task'["loop"].res \in {"StorageError", "CertificateRenewalRequired"}
            /\ ~acme_called'
            /\ UNCHANGED storeVars]_vars

\* with ACME disabled, a Load's storage get has failed and a direct issue call
\* has returned ACMEIsDisabled
C5_Witness ==
    /\ acme_type = None
    /\ task["loop"].pc = "select"
    /\ task["loop"].res = "StorageError"
    /\ task["caller"].pc = "idle"
    /\ task["caller"].res = "ACMEIsDisabled"

\* C6: command ordering: the commands are received in the order they were sent,
\* each once: the k-th command received is the k-th sent, the channel holds the
\* following ones in order, and the loop works on the last one received.
C6_Fifo ==
    /\ lastN = consumed
    /\ Len(queue) = sent - consumed
    /\ \A i \in 1..Len(queue) : queue[i].n = consumed + i
    /\ task["loop"].pc # "select" => task["loop"].n = consumed

\* two commands were received while a Load enqueued by a tick waits behind a
\* producer's command
C6_Witness ==
    /\ consumed >= 1
    /\ Len(queue) >= 2
    /\ queue[1].src = "producer"
    /\ queue[2].src = "tick"

\* C7 as stated: every tenancy in the store whose certificate is due has an
\* entry in the renew_needed snapshot.
C7_DueInSnapshot ==
    \A k \in DOMAIN certificates :
        RenewNeededCert(certificates[k]) =>
            \E e \in RenewNeeded(certificates) : e.key = k

\* C7 (amended): every tenancy in the store whose certificate is due and whose
\* domains() is present has an entry, with those domains, in the renew_needed
\* snapshot.
C7_DueWithDomainsInSnapshot ==
    \A k \in DOMAIN certificates :
        (RenewNeededCert(certificates[k]) /\ IsSome(certificates[k].san)) =>
            \E e \in RenewNeeded(certificates) :
                e.key = k /\ e.domains = Unwrap(certificates[k].san)

\* two tenancies in the store hold due certificates with domains
C7_Witness ==
    /\ Cardinality(DOMAIN certificates) = 2
    /\ \A k \in DOMAIN certificates :
          RenewNeededCert(certificates[k]) /\ IsSome(certificates[k].san)

\* the tick arm of select! is being taken
TickStep == ticks' = ticks + 1
\* the commands a step appends to the channel
Enqueued == {queue'[i] : i \in (Len(queue) + 1)..Len(queue')}
\* the loop's first load_to_memory of a Load examines a due certificate
LoopLoadsDue ==
    /\ task["loop"].pc = "load_get"
    /\ task["loop"].frame = "first"
    /\ StoredCertDue("loop")
    /\ Steps("loop")
    /\ task'["loop"].res # "StorageError"
\* load_to_memory returns CertificateRenewalRequired and, with ACME enabled,
\* issue(k, domains, None, None) is entered
RenewalFallsBackToIssue ==
    /\ task'["loop"].res = "CertificateRenewalRequired"
    /\ is_acme_enabled =>
          /\ task'["loop"].pc = "issue_account"
          /\ task'["loop"].key = task["loop"].key
          /\ task'["loop"].domains = task["loop"].domains
          /\ task'["loop"].account = FALSE

\* C8 as stated: a tick enqueues a Load for every tenancy in the store whose
\* certificate is due; a Load that finds the due certificate in storage returns
\* CertificateRenewalRequired and, with ACME enabled, falls back to issue.
C8_SweepEveryDue ==
    [][/\ TickStep =>
            \A k \in DOMAIN certificates :
                RenewNeededCert(certificates[k]) =>
                    \E m \in Enqueued : m.cmd = "Load" /\ m.key = k
       /\ LoopLoadsDue => RenewalFallsBackToIssue]_vars

\* C8 (amended): a tick enqueues exactly one Load(k, domains()) for every tenancy
\* in the store whose certificate is due and whose domains() is present, and
\* handles nothing inline; a Load that finds the due certificate in storage
\* returns CertificateRenewalRequired and, with ACME enabled, falls back to issue.
C8_SweepDueWithDomains ==
    [][/\ TickStep =>
            /\ \A k \in DOMAIN certificates :
                  (RenewNeededCert(certificates[k]) /\ IsSome(certificates[k].san)) =>
                      \E m \in Enqueued :
                          /\ m.cmd = "Load" /\ m.key = k
                          /\ m.domains = Unwrap(certificates[k].san)
            /\ Len(queue') - Len(queue) = Cardinality(RenewNeeded(certificates))
            /\ SubSeq(queue', 1, Len(queue)) = queue
            /\ UNCHANGED <<storeVars, storage, task, acme_configurations, acme_called>>
       /\ LoopLoadsDue => RenewalFallsBackToIssue]_vars

\* the loop enters issue for a Load that a tick enqueued and whose
\* load_to_memory returned CertificateRenewalRequired
C8_Witness ==
    /\ task["loop"].pc = "issue_account"
    /\ task["loop"].src = "tick"
    /\ task["loop"].res = "CertificateRenewalRequired"

\* ------------------------------------------------- store-level properties
\* the domains Certificate::domains() reports, as a set (none when absent)
CertDomains(cert) == IF IsSome(cert.san) THEN Range(Unwrap(cert.san)) ELSE {}
Indexed(dm, d, k) == d \in DOMAIN dm /\ k \in dm[d]

\* C1: index consistency: k is in domain_map[d] iff k is a key of certificates
\* and d is one of the domains of the certificate stored under k.
C1_IndexConsistency ==
    \A d \in Domains, k \in Keys :
        Indexed(domain_map, d, k)
            <=> (k \in DOMAIN certificates /\ d \in CertDomains(certificates[k]))

\* C2: after re-inserting under an existing key k, every domain that was indexed
\* for k before and is not in the new list no longer has k in its set.
C2_ReinsertDropsStale ==
    (lastOp.op = "insert" /\ lastOp.key \in DOMAIN lastOp.pre.certificates) =>
        \A d \in Domains :
            (Indexed(lastOp.pre.domain_map, d, lastOp.key) /\ d \notin Range(lastOp.domains))
                => ~Indexed(domain_map, d, lastOp.key)

\* C9: no empty sets: domain_map holds no domain whose set of keys is empty.
C9_NoEmptySets == \A d \in DOMAIN domain_map : domain_map[d] # {}

\* a remove has just emptied, and pruned, the set of some domain
C9_Witness ==
    /\ lastOp.op = "remove"
    /\ \E d \in DOMAIN lastOp.pre.domain_map :
          lastOp.pre.domain_map[d] = {lastOp.key} /\ d \notin DOMAIN domain_map

\* C10 as stated: insert(k, d, c) followed by remove(k) leaves the store as it
\* was before the insert, for every key k.
C10_RoundTripAnyKey == lastOp.op = "insert_remove" => TheStore = lastOp.pre

\* C10 (amended): insert(k, d, c) followed by remove(k) leaves certificates and
\* domain_map as they were before the insert, provided k was not a key of
\* certificates before the insert.
C10_RoundTripFreshKey ==
    (lastOp.op = "insert_remove" /\ lastOp.key \notin DOMAIN lastOp.pre.certificates)
        => TheStore = lastOp.pre

\* a fresh key was inserted with a non-empty list into a non-empty store, then removed
C10_Witness ==
    /\ lastOp.op = "insert_remove"
    /\ lastOp.key \notin DOMAIN lastOp.pre.certificates
    /\ lastOp.domains # <<>>
    /\ lastOp.pre.domain_map # <<>>
    /\ TheStore = lastOp.pre

\* ------------------------------------------------------------- lookups
\* Result<T, GatewayError>
Ok(x) == [ok |-> TRUE, val |-> x]
Err(e) == [ok |-> FALSE, val |-> e]

\* CertificateManager::get_acme_tls_challenge
get_acme_tls_challenge(domain) ==
    IF domain \notin DOMAIN acme_configurations THEN Err("CertificateNotFound")
    ELSE IF acme_configurations[domain].variant = "TlsAlpn01"
         THEN Ok(acme_configurations[domain])
         ELSE Err("CertificateNotFound")

\* CertificateManager::get_acme_http_challenge
get_acme_http_challenge(domain) ==
    IF domain \notin DOMAIN acme_configurations THEN Err("ACMEChallengeNotFound")
    ELSE IF acme_configurations[domain].variant = "Http01"
         THEN Ok(acme_configurations[domain])
         ELSE Err("ACMEChallengeNotFound")

\* the registry holds an entry of the given variant for the domain
HasVariant(domain, variant) ==
    domain \in DOMAIN acme_configurations /\ acme_configurations[domain].variant = variant

\* C11: lookup failure rules: each lookup succeeds exactly for an entry of its
\* own variant, and otherwise (no entry, or an entry of the other variant) both
\* fail with ACMEChallengeNotFound.
C11_SameFailureRules ==
    \A d \in Domains :
        /\ get_acme_tls_challenge(d) =
              IF HasVariant(d, "TlsAlpn01") THEN Ok(acme_configurations[d])
              ELSE Err("ACMEChallengeNotFound")
        /\ get_acme_http_challenge(d) =
              IF HasVariant(d, "Http01") THEN Ok(acme_configurations[d])
              ELSE Err("ACMEChallengeNotFound")

\* ------------------------------------------------------ issue properties
\* task t returns from issue in this step
IssueReturns(t) == task[t].pc \in IssuePcs /\ task'[t].pc \notin IssuePcs
\* the step of task t is an adapter or storage call of issue that fails
OrderOpenFails(t) == task[t].pc = "issue_new_order" /\ IssueReturns(t)
ShortPutFails(t) == task[t].pc = "issue_put_short" /\ UNCHANGED storage
ValidationFails(t) == task[t].pc = "issue_check" /\ task'[t].pc = "issue_cleanup"
PutFails(t) == task[t].pc = "issue_put" /\ UNCHANGED storage

\* C12: result of issue with ACME enabled: the call returns Ok or ACMEFailed,
\* and a failed order open, a failed validation and a failed put (on the
\* short-circuit path and on the challenge path) all end in ACMEFailed.
C12_OkOrACMEFailed ==
    [][\A t \in Tasks :
        (is_acme_enabled /\ Steps(t)) =>
            /\ IssueReturns(t) => task'[t].res \in {"Ok", "ACMEFailed"}
            /\ (OrderOpenFails(t) \/ ShortPutFails(t)) => task'[t].res = "ACMEFailed"
            /\ (ValidationFails(t) \/ PutFails(t)) => ~task'[t].success
            /\ (task[t].pc = "issue_cleanup" /\ ~task[t].success) =>
                  task'[t].res = "ACMEFailed"]_vars

\* task t is between registering a challenge for domain d and deregistering it
ChallengeActive(t, d) ==
    /\ task[t].pc \in {"issue_register", "issue_check", "issue_put", "issue_cleanup"}
    /\ d \in Range(task[t].registered)

\* C13: at most one challenge active per domain: no two issuance attempts are
\* at the same time between registering a challenge for d and deregistering it.
C13_OneActiveChallenge ==
    \A d \in Domains : Cardinality({t \in Tasks : ChallengeActive(t, d)}) <= 1

\* C19: challenge availability during validation: while an issue call waits for
\* check_challenge, each of its challenge domains maps in the registry to the
\* challenge this call registered.
C19_AvailableDuringValidation ==
    \A t \in Tasks :
        task[t].pc = "issue_check" =>
            \A d \in Range(task[t].registered) :
                d \in DOMAIN acme_configurations /\ acme_configurations[d].owner = t

\* ------------------------------------------------ loop lifetime properties
\* the loop takes an arm of select! in this step
LoopServes == consumed' # consumed \/ ticks' # ticks

\* C14 as stated: once the original instance is dropped, the loop processes no
\* further command and no further timer tick.
C14_DropStopsLoop == [][handler = None => ~LoopServes]_vars

\* C14 (amended): dropping the original instance does not stop the loop: the
\* drop changes nothing but the handle, and afterwards the receive arm stays
\* enabled whenever the loop is in select! with a command waiting, and the tick
\* arm whenever it is in select! and no writer holds the store.
C14_LoopSurvivesDrop ==
    /\ [][handler' # handler =>
            UNCHANGED <<task, queue, storeVars, locks, consumed, ticks>>]_vars
    /\ [](handler = None =>
            /\ (task["loop"].pc = "select" /\ queue # <<>>) => ENABLED LoopRecv
            /\ (task["loop"].pc = "select" /\ locks["store"] = None) => ENABLED LoopTick
            /\ task["loop"].pc # "aborted")

\* with the original dropped, the loop has served a command, is back in select!
\* and another command waits
C14_Witness ==
    /\ handler = None
    /\ consumed >= 1
    /\ task["loop"].pc = "select"
    /\ queue # <<>>

\* --------------------------------------------------- Load arm properties
\* the loop's call of load_to_memory with the given frame returns in this step
LoopLoadReturns(frame) ==
    /\ task["loop"].pc \in LoadPcs
    /\ task["loop"].frame = frame
    /\ task'["loop"].pc \notin LoadPcs
\* the loop keeps working on the same command
SameCommand ==
    /\ task'["loop"].key = task["loop"].key
    /\ task'["loop"].domains = task["loop"].domains
    /\ task'["loop"].n = task["loop"].n

\* C15: Load fallback protocol: a consumed Load starts a first load_to_memory;
\* when it fails with ACME enabled, issue(k, domains, None, None) is entered,
\* and otherwise the loop is back in select!; whatever issue returns, a second
\* load_to_memory follows; when that returns the loop is back in select!; issue
\* is entered from a first load only and a load starts from select! or after
\* issue only.
C15_LoadFallback ==
    [][Steps("loop") =>
        /\ (task["loop"].pc = "select" /\ task'["loop"].pc = "load_get") =>
              task'["loop"].frame = "first"
        /\ LoopLoadReturns("first") =>
              IF task'["loop"].res # "Ok" /\ is_acme_enabled
              THEN /\ task'["loop"].pc = "issue_account"
                   /\ task'["loop"].account = FALSE
                   /\ SameCommand
              ELSE task'["loop"].pc = "select"
        /\ IssueReturns("loop") =>
              /\ task'["loop"].pc = "load_get"
              /\ task'["loop"].frame = "second"
              /\ SameCommand
        /\ LoopLoadReturns("second") => task'["loop"].pc = "select"
        /\ (task'["loop"].pc = "issue_account" /\ task["loop"].pc # "issue_account") =>
              LoopLoadReturns("first")
        /\ (task'["loop"].pc = "load_get" /\ task["loop"].pc # "load_get") =>
              task["loop"].pc = "select" \/ IssueReturns("loop")]_vars

\* issue has failed and the loop is in its second load_to_memory
C15_Witness ==
    /\ task["loop"].pc \in LoadPcs
    /\ task["loop"].frame = "second"
    /\ task["loop"].res = "ACMEFailed"

\* ------------------------------------------------------- lock properties
\* the positions at which a task awaits storage I/O or an ACME adapter call
IoPcs == {"load_get", "issue_account", "issue_new_order", "issue_put_short",
          "issue_check", "issue_put"}

\* C16: lock discipline: a task that awaits storage I/O or an ACME adapter call
\* holds neither lock; the store guard is held only for the insert of
\* load_to_memory (after its storage get) and the remove of unload_from_memory,
\* and the registry guard only to register and to deregister in issue.
C16_LockDiscipline ==
    \A t \in Tasks :
        /\ task[t].pc \in IoPcs => Holding(t) = {}
        /\ locks["store"] = Some(t) => task[t].pc \in {"load_insert", "unload"}
        /\ locks["registry"] = Some(t) => task[t].pc \in {"issue_register", "issue_cleanup"}

\* one task holds the registry guard to deregister while the other awaits
\* check_challenge
C16_Witness ==
    \E t, u \in Tasks :
        /\ locks["registry"] = Some(t)
        /\ task[t].pc = "issue_cleanup"
        /\ task[u].pc = "issue_check"

\* ---------------------------------------------------- liveness properties
\* C17: loop resilience: whatever load_to_memory and issue return, the loop is
\* in select! again and again with every command sent so far received, and the
\* timer's ticks are all handled.
C17_LoopResilience ==
    []<>(/\ task["loop"].pc = "select"
         /\ consumed = sent
         /\ ~LiveTick)

\* the loop is back in select! after an issue that failed and a second load
\* that failed, with every command sent so far received
C17_Witness ==
    /\ task["loop"].pc = "select"
    /\ task["loop"].res \in {"StorageError", "CertificateRenewalRequired"}
    /\ acme_called
    /\ consumed = sent
    /\ consumed >= 2

\* ---------------------------------------------------------- store lookups
\* CertificateStore::get_config: the results it can give, one per tenancy that
\* the iteration of the domain's set can yield first (the certificate stands
\* for its config)
get_config(domain) ==
    IF domain \notin DOMAIN domain_map THEN {None}
    ELSE IF domain_map[domain] = {} THEN {None}
    ELSE {IF k \in DOMAIN certificates THEN Some(certificates[k]) ELSE None :
             k \in domain_map[domain]}

\* CertificateManager::get
get(domain) ==
    {IF IsSome(c) THEN Ok(Unwrap(c)) ELSE Err("CertificateNotFound") :
        c \in get_config(domain)}

\* C18: no dangling index entries: every key in a set of domain_map is a key of
\* certificates; get(domain) returns a configuration when domain is a key of
\* domain_map and CertificateNotFound when it is not.
C18_NoDanglingEntries ==
    /\ \A d \in DOMAIN domain_map : domain_map[d] \subseteq DOMAIN certificates
    /\ \A d \in Domains :
          IF d \in DOMAIN domain_map
          THEN \A r \in get(d) : r.ok
          ELSE get(d) = {Err("CertificateNotFound")}

\* a remove has taken its key out of a set that another tenancy keeps alive and
\* has pruned the set of another domain
C18_Witness ==
    /\ lastOp.op = "remove"
    /\ \E d \in DOMAIN domain_map :
          Indexed(lastOp.pre.domain_map, d, lastOp.key) /\ (\A r \in get(d) : r.ok)
    /\ \E d \in DOMAIN lastOp.pre.domain_map :
          d \notin DOMAIN domain_map /\ get(d) = {Err("CertificateNotFound")}

\* ------------------------------------------------------ unload properties
\* C20: Unload is not undone by the renewal sweep: a tenancy whose Unload the
\* loop has served, with no Load for it sent by a producer since that Unload
\* was sent, is not in the store.
C20_UnloadedStaysOut == \A k \in unloaded : k \notin DOMAIN certificates

====
